---- MODULE Spec2Model ----
(***************************************************************************)
(* A model of understanding/examples/run_xglue_ft.py: the multi-task       *)
(* sampler merge_dataset, average_dic, the training loop of train and the  *)
(* start-up checks of main.                                                *)
(*                                                                         *)
(* Python floats are modelled as binary floating-point numbers with Prec   *)
(* significant bits (the code runs with 53), round-to-nearest-even and an  *)
(* unbounded exponent; a float is the exact rational <<n, d>> it stands    *)
(* for, in lowest terms with d > 0.                                        *)
(***************************************************************************)
EXTENDS Integers, Sequences, FiniteSets, TLC

\* ------------------------------------------------------------------ bounds
Prec == 5          \* significant bits of a float (53 in the code)
MaxTasks == 3      \* most task datasets handed to merge_dataset
MaxSize == 2       \* most examples in one task dataset
MaxBatch == 2      \* largest train_batch_size
MaxYield == 3      \* most items drawn from one generator
MaxDics == 3       \* most dictionaries handed to average_dic
MaxGas == 2        \* largest gradient_accumulation_steps
MaxBatches == 6    \* most batches one call of train processes
MaxGpu == 1        \* most GPUs torch.cuda.device_count() reports
MaxCalls == 2      \* most calls of load_and_cache_examples in one run
MaxEvalBatches == 2    \* most batches of an evaluation data loader
MaxProcs == 3      \* most processes of a distributed launch

\* ------------------------------------------------------- rational numbers
RECURSIVE GCD(_, _)
GCD(a, b) == IF b = 0 THEN a ELSE GCD(b, a % b)

Abs(x) == IF x < 0 THEN -x ELSE x

\* n/d in lowest terms, d > 0
Rat(n, d) ==
    LET g == GCD(Abs(n), Abs(d))
        s == IF d < 0 THEN -1 ELSE 1
    IN  <<s * (n \div g), s * (d \div g)>>

RZero == <<0, 1>>
ROne == <<1, 1>>
RLess(x, y) == x[1] * y[2] < y[1] * x[2]
RLeq(x, y) == x[1] * y[2] <= y[1] * x[2]
RNeg(x) == x[1] < 0
RAddExact(x, y) == Rat(x[1] * y[2] + y[1] * x[2], x[2] * y[2])
RSubExact(x, y) == Rat(x[1] * y[2] - y[1] * x[2], x[2] * y[2])
RMulExact(x, y) == Rat(x[1] * y[1], x[2] * y[2])
RDivExact(x, y) == Rat(x[1] * y[2], x[2] * y[1])
RAbs(x) == <<Abs(x[1]), x[2]>>

RECURSIVE Pow2(_)
Pow2(e) == IF e = 0 THEN 1 ELSE 2 * Pow2(e - 1)

\* 2^Prec and 2^(Prec-1)
TwoP == Pow2(Prec)
HalfP == Pow2(Prec - 1)

RECURSIVE IPow(_, _)
IPow(b, e) == IF e = 0 THEN 1 ELSE b * IPow(b, e - 1)

\* --------------------------------------------------------- Python floats
\* n/d > 0 rounded to Prec significant bits, ties to even; up and dn are the
\* powers of two the value has been scaled by so far.
RECURSIVE RoundPos(_, _, _, _)
RoundPos(n, d, up, dn) ==
    IF n < HalfP * d THEN RoundPos(2 * n, d, 2 * up, dn)
    ELSE IF n >= TwoP * d THEN RoundPos(n, 2 * d, up, 2 * dn)
    ELSE LET m == n \div d
             rem == n - m * d
             mr == IF 2 * rem > d \/ (2 * rem = d /\ m % 2 = 1) THEN m + 1 ELSE m
         IN  Rat(mr * dn, up)

\* the float nearest to the rational x
Fl(x) ==
    IF x[1] = 0 THEN RZero
    ELSE IF x[1] > 0 THEN RoundPos(x[1], x[2], 1, 1)
    ELSE LET y == RoundPos(-x[1], x[2], 1, 1) IN <<-y[1], y[2]>>

FAdd(x, y) == Fl(RAddExact(x, y))
FSub(x, y) == Fl(RSubExact(x, y))
\* x / y for y # 0 (Python raises ZeroDivisionError for y = 0)
FDiv(x, y) == Fl(RDivExact(x, y))
\* x ** e for a float x >= 0 and e in 0..2; Python gives 0.0 ** 0 = 1.0
FPow(x, e) ==
    IF e = 0 THEN ROne
    ELSE IF e = 1 THEN x
    ELSE Fl(RMulExact(x, x))

\* Python's sum(): left to right, starting from the integer 0
RECURSIVE FSumFrom(_, _, _)
FSumFrom(s, k, acc) ==
    IF k > Len(s) THEN acc ELSE FSumFrom(s, k + 1, FAdd(acc, s[k]))
FSum(s) == FSumFrom(s, 1, RZero)

RECURSIVE ISumFrom(_, _)
ISumFrom(s, k) == IF k > Len(s) THEN 0 ELSE s[k] + ISumFrom(s, k + 1)
\* sum() of a list of ints
ISum(s) == ISumFrom(s, 1)

\* the values random.random() returns: the multiples of 2^-Prec in [0, 1)
Draws == {Rat(j, TwoP) : j \in 0..(TwoP - 1)}

\* ------------------------------------------------------------------ state
VARIABLES
    \* merge_dataset(dataset_list, dataset_size, task_ratio): its arguments
    dataset_list,   \* per task, the number of items one pass over it yields
    dataset_size,   \* per task, the number of examples (len(train_dataset))
    task_ratio,
    \* the generator's frame
    gen_pc,         \* "created", "ready" (lines 97-102 done), "running" (at the
                    \* yield), "raised" or "finished"
    gen_err,        \* the exception that left the generator, "" if none
    iterators,      \* per task, the items its iterator has yielded in this pass
    probs,          \* the sampling probabilities, <<>> before they are computed
    i,              \* the task index of the last selection
    selectable,     \* the task indices lines 105-110 can leave in i: a function
                    \* of probs, computed with them
    item,           \* the position in its pass of the item last yielded, -1 if none
    yield_count     \* per task, the items yielded for it so far (history)

genVars == <<dataset_list, dataset_size, task_ratio, gen_pc, gen_err, iterators,
             probs, i, selectable, item, yield_count>>

\* ---------------------------------------------------------- merge_dataset
\* line 100: probs = [float(item)/sum(dataset_size) for item in dataset_size]
RECURSIVE SizeProbsFrom(_, _, _)
SizeProbsFrom(size, k, total) ==
    IF k > Len(size) THEN <<>>
    ELSE <<FDiv(Rat(size[k], 1), Rat(total, 1))>> \o SizeProbsFrom(size, k + 1, total)
SizeProbs(size) == SizeProbsFrom(size, 1, ISum(size))

\* mutant of PowProbs: the exponent is not applied
PowProbsNoRatio(p, ratio) == p

\* line 101: probs = [item**task_ratio for item in probs]
RECURSIVE PowProbsFrom(_, _, _)
PowProbsFrom(p, k, ratio) ==
    IF k > Len(p) THEN <<>>
    ELSE <<FPow(p[k], ratio)>> \o PowProbsFrom(p, k + 1, ratio)
PowProbs(p, ratio) == PowProbsFrom(p, 1, ratio)

\* mutant of NormProbs: the renormalization is left out
NormProbsSkipped(p) == p

\* line 102: probs = [float(item)/sum(probs) for item in probs]
RECURSIVE NormProbsFrom(_, _, _)
NormProbsFrom(p, k, total) ==
    IF k > Len(p) THEN <<>>
    ELSE <<FDiv(p[k], total)>> \o NormProbsFrom(p, k + 1, total)
NormProbs(p) == NormProbsFrom(p, 1, FSum(p))

\* lines 100-102 raise ZeroDivisionError: a division is evaluated (the list is
\* not empty) and its divisor is 0
ProbsRaise(size, ratio) ==
    /\ Len(size) > 0
    /\ IF ISum(size) = 0 THEN TRUE
       ELSE FSum(PowProbs(SizeProbs(size), ratio)) = RZero

MergeProbs(size, ratio) == NormProbs(PowProbs(SizeProbs(size), ratio))

\* lines 106-110: the scan-subtraction; the task index it leaves in i
RECURSIVE Scan(_, _, _)
Scan(p, r, k) ==
    IF ~RNeg(r) /\ k < Len(p) THEN Scan(p, FSub(r, p[k + 1]), k + 1) ELSE k

SelectTask(p, r) == Scan(p, r, 0) - 1

\* lines 105-110 over every value random.random() can return
Selectable(p) == {SelectTask(p, r) : r \in Draws}

Zeros(n) == [j \in 1..n |-> 0]

\* the first next(generator) runs lines 97-102 before the loop: a division by
\* zero at line 100 or 102
GenZeroDivision ==
    /\ gen_pc = "created"
    /\ ProbsRaise(dataset_size, task_ratio)
    /\ gen_pc' = "raised"
    /\ gen_err' = "ZeroDivisionError"
    /\ iterators' = Zeros(Len(dataset_list))
    /\ UNCHANGED <<dataset_list, dataset_size, task_ratio, probs, i, selectable,
                   item, yield_count>>

\* the first next(generator), lines 97-102: the iterators and the probabilities
GenSetup ==
    /\ gen_pc = "created"
    /\ ~ProbsRaise(dataset_size, task_ratio)
    /\ gen_pc' = "ready"
    /\ iterators' = Zeros(Len(dataset_list))
    /\ probs' = MergeProbs(dataset_size, task_ratio)
    /\ selectable' = Selectable(probs')
    /\ UNCHANGED <<dataset_list, dataset_size, task_ratio, gen_err, i, item,
                   yield_count>>

\* what a StopIteration raised inside the generator body becomes: RuntimeError
\* from Python 3.7 on (PEP 479), the silent end of the generator before
Exhausted == {<<"raised", "RuntimeError">>, <<"finished", "StopIteration">>}

\* lines 103-110 of a next(generator): the draw of line 105 makes the scan
\* select sel
GenSelect(sel) ==
    /\ gen_pc \in {"ready", "running"}
    /\ sel \in selectable
    /\ i' = sel
    /\ UNCHANGED <<dataset_list, dataset_size, task_ratio, probs, selectable>>

\* line 111 with no task at all: iterators[-1] of an empty list
GenIndexError ==
    /\ GenSelect(-1)
    /\ gen_pc' = "raised"
    /\ gen_err' = "IndexError"
    /\ UNCHANGED <<iterators, item, yield_count>>

\* lines 111 and 115: the selected iterator has an item left
GenYield(sel) ==
    /\ GenSelect(sel)
    /\ iterators[sel + 1] < dataset_list[sel + 1]
    /\ item' = iterators[sel + 1]
    /\ iterators' = [iterators EXCEPT ![sel + 1] = @ + 1]
    /\ yield_count' = [yield_count EXCEPT ![sel + 1] = @ + 1]
    /\ gen_pc' = "running"
    /\ UNCHANGED gen_err

\* mutant of GenRestart: the exhausted iterator's StopIteration is not caught
GenRestartUncaught(sel) ==
    /\ GenSelect(sel)
    /\ iterators[sel + 1] >= dataset_list[sel + 1]
    /\ dataset_list[sel + 1] > 0
    /\ gen_pc' = "finished"
    /\ gen_err' = "StopIteration"
    /\ UNCHANGED <<iterators, item, yield_count>>

\* mutant of GenRestart: the restart makes new iterators for every task
GenRestartAll(sel) ==
    /\ GenSelect(sel)
    /\ iterators[sel + 1] >= dataset_list[sel + 1]
    /\ dataset_list[sel + 1] > 0
    /\ item' = 0
    /\ iterators' = [j \in 1..Len(dataset_list) |-> IF j = sel + 1 THEN 1 ELSE 0]
    /\ yield_count' = [yield_count EXCEPT ![sel + 1] = @ + 1]
    /\ gen_pc' = "running"
    /\ UNCHANGED gen_err

\* lines 111-115: it is exhausted; a new iterator yields its first item
GenRestart(sel) ==
    /\ GenSelect(sel)
    /\ iterators[sel + 1] >= dataset_list[sel + 1]
    /\ dataset_list[sel + 1] > 0
    /\ item' = 0
    /\ iterators' = [iterators EXCEPT ![sel + 1] = 1]
    /\ yield_count' = [yield_count EXCEPT ![sel + 1] = @ + 1]
    /\ gen_pc' = "running"
    /\ UNCHANGED gen_err

\* lines 111-114 on an empty dataset: the new iterator raises StopIteration at
\* line 114, inside the except clause
GenExhausted(sel) ==
    /\ GenSelect(sel)
    /\ dataset_list[sel + 1] = 0
    /\ \E out \in Exhausted : gen_pc' = out[1] /\ gen_err' = out[2]
    /\ iterators' = [iterators EXCEPT ![sel + 1] = 0]
    /\ UNCHANGED <<item, yield_count>>

\* the task indices a scan over at most MaxTasks probabilities can leave
TaskIndices == 0..(MaxTasks - 1)

\* len(DataLoader(dataset, batch_size=b)) for a dataset of n examples
LoaderLen(n, b) == (n + b - 1) \div b

SizeVectors == UNION {[1..k -> 0..MaxSize] : k \in 0..MaxTasks}

\* train's call at line 231: the sizes are the datasets' lengths, the list
\* holds their DataLoaders
GenArgs(sizes, batch, ratio) ==
    /\ dataset_size = sizes
    /\ dataset_list = [j \in 1..Len(sizes) |-> LoaderLen(sizes[j], batch)]
    /\ task_ratio = ratio
    /\ gen_err = ""
    /\ iterators = <<>>
    /\ probs = <<>>
    /\ i = 0
    /\ selectable = {}
    /\ item = -1
    /\ yield_count = Zeros(Len(sizes))

\* the generator object exists and has run no code yet
GenCreated(sizes, batch, ratio) == GenArgs(sizes, batch, ratio) /\ gen_pc = "created"

Yielded == ISum(yield_count)

\* ------------------------------------------------------------ average_dic
VARIABLES
    dic_list,       \* the argument: a list of dictionaries, each a function from
                    \* its keys to float values
    avg_pc,         \* "idle", "called", "loop" (in the for of line 411),
                    \* "returned" or "raised"
    avg_err,        \* the exception that left average_dic, "" if none
    dic_sum,        \* the local dictionary of line 410
    dic_index,      \* the number of dictionaries the loop of line 411 has taken
    avg_result      \* the return value

avgVars == <<dic_list, avg_pc, avg_err, dic_sum, dic_index, avg_result>>

\* the metric names of a result dictionary
MetricKeys == {"acc", "f1"}

\* metric values: 0.0, 1.0 and the largest float below 1.0
MetricValues == {RZero, ROne, Rat(TwoP - 1, TwoP)}

\* {}
EmptyDic == [key \in {} |-> RZero]

Dics == UNION {[keys -> MetricValues] : keys \in SUBSET MetricKeys}

DicLists == UNION {[1..n -> Dics] : n \in 0..MaxDics}

\* mutant of DicAdd: the value is assigned, not added
DicAddAssigned(sum, dic) == dic

\* lines 417-418: for key, value in dic.items(): dic_sum[key] += value
DicAdd(sum, dic) == [key \in DOMAIN sum |-> FAdd(sum[key], dic[key])]

\* lines 419-420: for key in dic_sum: dic_sum[key] /= len(dic_list)
DicDiv(sum, n) == [key \in DOMAIN sum |-> FDiv(sum[key], Rat(n, 1))]

AvgCalled(list) ==
    /\ dic_list = list
    /\ avg_pc = "called"
    /\ avg_err = ""
    /\ dic_sum = EmptyDic
    /\ dic_index = 0
    /\ avg_result = EmptyDic

\* no call of average_dic
AvgIdle ==
    /\ dic_list = <<>>
    /\ avg_pc = "idle"
    /\ avg_err = ""
    /\ dic_sum = EmptyDic
    /\ dic_index = 0
    /\ avg_result = EmptyDic

\* lines 408-409: an empty list
AvgReturnEmpty ==
    /\ avg_pc = "called"
    /\ Len(dic_list) = 0
    /\ avg_pc' = "returned"
    /\ avg_result' = EmptyDic
    /\ UNCHANGED <<dic_list, avg_err, dic_sum, dic_index>>

\* lines 410-411: the loop takes the next dictionary
AvgNext ==
    /\ avg_pc \in {"called", "loop"}
    /\ dic_index < Len(dic_list)
    /\ dic_index' = dic_index + 1
    /\ UNCHANGED <<dic_list, avg_result>>

\* lines 412-414: dic_sum is empty and takes the dictionary's items
AvgCopy ==
    /\ AvgNext
    /\ DOMAIN dic_sum = {}
    /\ dic_sum' = dic_list[dic_index + 1]
    /\ avg_pc' = "loop"
    /\ UNCHANGED avg_err

\* line 416: the assertion on the key sets fails
AvgAssertFail ==
    /\ AvgNext
    /\ DOMAIN dic_sum # {}
    /\ DOMAIN dic_sum # DOMAIN dic_list[dic_index + 1]
    /\ avg_pc' = "raised"
    /\ avg_err' = "AssertionError"
    /\ UNCHANGED dic_sum

\* lines 416-418: the assertion holds and the values are added
AvgAdd ==
    /\ AvgNext
    /\ DOMAIN dic_sum # {}
    /\ DOMAIN dic_sum = DOMAIN dic_list[dic_index + 1]
    /\ dic_sum' = DicAdd(dic_sum, dic_list[dic_index + 1])
    /\ avg_pc' = "loop"
    /\ UNCHANGED avg_err

\* lines 419-421: the loop is over; divide and return
AvgDivide ==
    /\ avg_pc = "loop"
    /\ dic_index = Len(dic_list)
    /\ dic_sum' = DicDiv(dic_sum, Len(dic_list))
    /\ avg_result' = dic_sum'
    /\ avg_pc' = "returned"
    /\ UNCHANGED <<dic_list, avg_err, dic_index>>

\* ------------------------------------- the arguments and state of main
VARIABLES
    output_dir,             \* what args.output_dir names: "missing", "empty" (an
                            \* empty directory), "nonempty" or "file"
    do_train,               \* args.do_train
    overwrite_output_dir,   \* args.overwrite_output_dir
    remote_debug,           \* args.server_ip and args.server_port are both given
    local_rank,             \* args.local_rank
    no_cuda,                \* args.no_cuda
    logging_steps,          \* args.logging_steps
    logging_steps_in_sample,    \* args.logging_steps_in_sample
    task_name,              \* args.task_name
    train_tasks,            \* args.train_tasks.split(",")
    n_gpu,                  \* args.n_gpu, -1 before it is set
    main_pc,        \* "idle", the stage main is about to run, "returned" or "raised"
    main_err,       \* the exception that left main, "" if none
    effects,        \* what main has done so far, a subset of Effects
    flags_set       \* which of --logging_steps and --logging_steps_in_sample the
                    \* command line sets, to a value other than -1 (history)

\* ------------------------------------------------------------------ train
VARIABLES
    max_steps,                      \* args.max_steps
    break_steps,                    \* args.break_steps
    gradient_accumulation_steps,    \* args.gradient_accumulation_steps
    num_train_epochs,               \* args.num_train_epochs
    train_pc,       \* "idle", "called", "loop" (the for of line 231), "save"
                    \* (line 291), "saved", "returned" or "raised"
    train_err,      \* the exception that left train, "" if none
    t_total,        \* the total step count given to the scheduler, -1 before
    global_step,    \* optimizer updates made
    step,           \* batches processed
    checkpoint,     \* the <n> of the checkpoint-<n> directory written, -1 if none
    train_result,   \* the global_step train returned, -1 if none
    logging_each_epoch,     \* args.logging_each_epoch
    steps_trained_in_current_epoch,     \* the local of line 195
    tr_loss,        \* the sum of the losses, every loss.item() taken as 1
    logging_loss,   \* tr_loss at the last call of logging()
    logged          \* the calls of logging() so far: <<"step" (line 277) or
                    \* "epoch" (line 308), global_step, batches processed>>
                    \* (history)

trainLog == <<logging_each_epoch, steps_trained_in_current_epoch, tr_loss,
              logging_loss, logged>>

trainVars == <<max_steps, break_steps, gradient_accumulation_steps,
               num_train_epochs, train_pc, train_err, t_total, global_step, step,
               checkpoint, train_result, trainLog>>

\* len(train_dataloader) at lines 133-137: the DataLoader left in the variable
\* by the loop of lines 127-131, the last one
LastLoaderLen == dataset_list[Len(dataset_list)]

\* updates per pass over the last DataLoader, the divisor of line 135
StepsPerEpoch == LastLoaderLen \div gradient_accumulation_steps

\* train is not logging
TrainLogStart(each_epoch) ==
    /\ logging_each_epoch = each_epoch
    /\ steps_trained_in_current_epoch = 0
    /\ tr_loss = 0
    /\ logging_loss = 0
    /\ logged = <<>>

TrainCalled(ms, bs, gas, epochs, each_epoch) ==
    /\ TrainLogStart(each_epoch)
    /\ max_steps = ms
    /\ break_steps = bs
    /\ gradient_accumulation_steps = gas
    /\ num_train_epochs = epochs
    /\ train_pc = "called"
    /\ train_err = ""
    /\ t_total = -1
    /\ global_step = 0
    /\ step = 0
    /\ checkpoint = -1
    /\ train_result = -1

\* no call of train
TrainIdle ==
    /\ TrainLogStart(FALSE)
    /\ max_steps = -1
    /\ break_steps = -1
    /\ gradient_accumulation_steps = 1
    /\ num_train_epochs = 1
    /\ train_pc = "idle"
    /\ train_err = ""
    /\ t_total = -1
    /\ global_step = 0
    /\ step = 0
    /\ checkpoint = -1
    /\ train_result = -1

\* lines 133-137 with no train dataset: train_dataloader was never assigned
TrainUnbound ==
    /\ train_pc = "called"
    /\ Len(dataset_list) = 0
    /\ train_pc' = "raised"
    /\ train_err' = "UnboundLocalError"
    /\ t_total' = IF max_steps > 0 THEN max_steps ELSE t_total
    /\ UNCHANGED <<max_steps, break_steps, gradient_accumulation_steps,
                   num_train_epochs, global_step, step, checkpoint, train_result>>
    /\ UNCHANGED genVars
    /\ UNCHANGED trainLog

\* line 135: the last DataLoader has fewer batches than one update takes
TrainZeroDivision ==
    /\ train_pc = "called"
    /\ Len(dataset_list) > 0
    /\ max_steps > 0
    /\ StepsPerEpoch = 0
    /\ train_pc' = "raised"
    /\ train_err' = "ZeroDivisionError"
    /\ t_total' = max_steps
    /\ UNCHANGED <<max_steps, break_steps, gradient_accumulation_steps,
                   num_train_epochs, global_step, step, checkpoint, train_result>>
    /\ UNCHANGED genVars
    /\ UNCHANGED trainLog

\* line 197: os.path.exists(args.model_name_or_path) and False
ContinueFromCheckpoint(exists) == exists /\ FALSE

\* lines 120-231: t_total (lines 133-137), global_step = 0 (line 193) unless
\* training continues from a checkpoint (lines 197-201), step = 0 (line 230)
\* and the call of merge_dataset (line 231)
TrainSetup ==
    /\ train_pc = "called"
    /\ Len(dataset_list) > 0
    /\ IF max_steps > 0
       THEN /\ StepsPerEpoch # 0
            /\ t_total' = max_steps
            /\ num_train_epochs' = (max_steps \div StepsPerEpoch) + 1
       ELSE /\ t_total' = StepsPerEpoch * num_train_epochs
            /\ UNCHANGED num_train_epochs
    /\ IF \E exists \in BOOLEAN : ContinueFromCheckpoint(exists)
       THEN \E saved \in 1..MaxBatches :
              /\ global_step' = saved
              /\ steps_trained_in_current_epoch' = saved % StepsPerEpoch
       ELSE /\ global_step' = 0
            /\ steps_trained_in_current_epoch' = 0
    /\ tr_loss' = 0
    /\ logging_loss' = 0
    /\ step' = 0
    /\ train_pc' = "loop"
    /\ gen_pc' = "created"
    /\ UNCHANGED <<max_steps, break_steps, gradient_accumulation_steps, train_err,
                   checkpoint, train_result, logging_each_epoch, logged>>
    /\ UNCHANGED <<dataset_list, dataset_size, task_ratio, gen_err, iterators,
                   probs, i, selectable, item, yield_count>>

\* line 231, the first next() on the generator: lines 97-102 of merge_dataset
TrainFirstNext ==
    /\ train_pc = "loop"
    /\ GenSetup
    /\ UNCHANGED trainVars

\* line 231: the exception of the generator leaves train
TrainRaised ==
    /\ train_pc' = "raised"
    /\ train_err' = gen_err'
    /\ UNCHANGED <<max_steps, break_steps, gradient_accumulation_steps,
                   num_train_epochs, t_total, global_step, step, checkpoint,
                   train_result>>
    /\ UNCHANGED trainLog

TrainGenZeroDivision == train_pc = "loop" /\ GenZeroDivision /\ TrainRaised

\* line 231: the selected task's DataLoader is empty; the generator raises
\* RuntimeError, or (before Python 3.7) ends and with it the for loop
TrainGenExhausted ==
    /\ train_pc = "loop"
    /\ \E sel \in TaskIndices : GenExhausted(sel)
    /\ IF gen_pc' = "raised"
       THEN TrainRaised
       ELSE /\ train_pc' = "save"
            /\ UNCHANGED <<max_steps, break_steps, gradient_accumulation_steps,
                           num_train_epochs, train_err, t_total, global_step, step,
                           checkpoint, train_result, trainLog>>

\* mutant of UpdatedGlobalStep: the update is made on the first batch of a
\* window
UpdatedGlobalStepEarly(gs, st, gas) == IF st % gas = 0 THEN gs + 1 ELSE gs

\* lines 265-274: global_step after the batch that makes step + 1 batches
UpdatedGlobalStep(gs, st, gas) == IF (st + 1) % gas = 0 THEN gs + 1 ELSE gs

\* mutant of LoggingDue: the rank of the process is not looked at
LoggingDueOnAnyRank(rank, ls, gs) == ls > 0 /\ gs % ls = 0

\* line 276: args.local_rank in [-1, 0] and args.logging_steps > 0 and
\* global_step % args.logging_steps == 0
LoggingDue(rank, ls, gs) == rank \in {-1, 0} /\ ls > 0 /\ gs % ls = 0

\* lines 282-288: the two breaks of the loop
BreakLoop(gs, ms, bs) == (ms > 0 /\ gs > ms) \/ (bs > 0 /\ gs > bs)

\* lines 231-288: one batch from the generator and the loop body
TrainBatch ==
    /\ train_pc = "loop"
    /\ step < MaxBatches
    /\ \E sel \in TaskIndices : GenYield(sel) \/ GenRestart(sel)
    /\ IF steps_trained_in_current_epoch > 0
       THEN /\ steps_trained_in_current_epoch' =
                   steps_trained_in_current_epoch - 1
            /\ UNCHANGED <<global_step, step, train_pc, tr_loss, logging_loss,
                           logged>>
       ELSE /\ tr_loss' = tr_loss + 1
            /\ global_step' = UpdatedGlobalStep(global_step, step,
                                                gradient_accumulation_steps)
            /\ IF /\ global_step' # global_step
                  /\ LoggingDue(local_rank, logging_steps, global_step')
               THEN /\ logged' = Append(logged, <<"step", global_step', step + 1>>)
                    /\ logging_loss' = tr_loss'
               ELSE UNCHANGED <<logging_loss, logged>>
            /\ step' = step + 1
            /\ train_pc' = IF BreakLoop(global_step', max_steps, break_steps)
                           THEN "save" ELSE "loop"
            /\ UNCHANGED steps_trained_in_current_epoch
    /\ UNCHANGED <<max_steps, break_steps, gradient_accumulation_steps,
                   num_train_epochs, train_err, t_total, checkpoint, train_result,
                   logging_each_epoch>>

\* line 307: args.local_rank in [-1, 0] and args.logging_each_epoch
EpochLoggingDue(rank, each_epoch) == rank \in {-1, 0} /\ each_epoch

\* lines 291-312: the checkpoint-<global_step> directory is written, logging()
\* is called if asked for each epoch, and the single pass of the for of line
\* 229 is over
TrainSave ==
    /\ train_pc = "save"
    /\ ~(EpochLoggingDue(local_rank, logging_each_epoch) /\ logging_steps = 0)
    /\ checkpoint' = global_step
    /\ IF EpochLoggingDue(local_rank, logging_each_epoch)
       THEN /\ logged' = Append(logged, <<"epoch", global_step, step>>)
            /\ logging_loss' = tr_loss
       ELSE UNCHANGED <<logging_loss, logged>>
    /\ train_pc' = "saved"
    /\ UNCHANGED <<max_steps, break_steps, gradient_accumulation_steps,
                   num_train_epochs, train_err, t_total, global_step, step,
                   train_result, logging_each_epoch,
                   steps_trained_in_current_epoch, tr_loss>>
    /\ UNCHANGED genVars

\* lines 291-308 and 227: the checkpoint is written and logging() divides by
\* args.logging_steps = 0
TrainSaveZeroDivision ==
    /\ train_pc = "save"
    /\ EpochLoggingDue(local_rank, logging_each_epoch)
    /\ logging_steps = 0
    /\ checkpoint' = global_step
    /\ train_pc' = "raised"
    /\ train_err' = "ZeroDivisionError"
    /\ UNCHANGED <<max_steps, break_steps, gradient_accumulation_steps,
                   num_train_epochs, t_total, global_step, step, train_result>>
    /\ UNCHANGED trainLog
    /\ UNCHANGED genVars

\* line 318: return global_step, tr_loss / global_step
TrainReturn ==
    /\ train_pc = "saved"
    /\ global_step # 0
    /\ train_pc' = "returned"
    /\ train_result' = global_step
    /\ UNCHANGED <<max_steps, break_steps, gradient_accumulation_steps,
                   num_train_epochs, train_err, t_total, global_step, step,
                   checkpoint>>
    /\ UNCHANGED genVars
    /\ UNCHANGED trainLog

\* line 318 with no update made: tr_loss / 0
TrainReturnZeroDivision ==
    /\ train_pc = "saved"
    /\ global_step = 0
    /\ train_pc' = "raised"
    /\ train_err' = "ZeroDivisionError"
    /\ UNCHANGED <<max_steps, break_steps, gradient_accumulation_steps,
                   num_train_epochs, t_total, global_step, step, checkpoint,
                   train_result>>
    /\ UNCHANGED genVars
    /\ UNCHANGED trainLog

\* ------------------------------------------------------------------- main
mainVars == <<output_dir, do_train, overwrite_output_dir, remote_debug, local_rank,
              no_cuda, logging_steps, logging_steps_in_sample, task_name,
              train_tasks, n_gpu, main_pc, main_err, effects, flags_set>>

mainArgs == <<output_dir, do_train, overwrite_output_dir, remote_debug, local_rank,
              no_cuda, logging_steps_in_sample, task_name, train_tasks,
              flags_set>>

Effects == {"debugger", "device", "distributed", "seed", "processors", "model",
            "files"}

\* the keys of processors (xglue_processors) the model tells apart
Processors == {"xnli", "pawsx"}

OutputDirError == "ValueError: Output directory already exists and is not empty"
TaskError == "ValueError: Task not found"

\* the default of --per_gpu_train_batch_size
PerGpuTrainBatchSize == 8

MainArgs(dir, train, overwrite, debug, rank, cpu, ls, lsis, task, tasks) ==
    /\ output_dir = dir
    /\ do_train = train
    /\ overwrite_output_dir = overwrite
    /\ remote_debug = debug
    /\ local_rank = rank
    /\ no_cuda = cpu
    /\ logging_steps = ls
    /\ logging_steps_in_sample = lsis
    /\ task_name = task
    /\ train_tasks = tasks
    /\ n_gpu = -1
    /\ main_err = ""
    /\ effects = {}

\* no call of main
MainIdle ==
    /\ MainArgs("missing", FALSE, FALSE, FALSE, -1, FALSE, 50, -1, "xnli", <<"xnli">>)
    /\ main_pc = "idle"
    /\ flags_set = {}

\* main leaves with an exception
MainRaise(err) ==
    /\ main_pc' = "raised"
    /\ main_err' = err

\* mutant of OutputDirRefused: the overwrite flag is not looked at
OutputDirRefusedDespiteOverwrite == output_dir = "nonempty" /\ do_train

\* lines 671-676: the condition of the output directory check
OutputDirRefused ==
    /\ output_dir = "nonempty"
    /\ do_train
    /\ ~overwrite_output_dir

\* line 673: os.listdir of a path that is not a directory
MainNotADirectory ==
    /\ main_pc = "output_dir"
    /\ output_dir = "file"
    /\ MainRaise("NotADirectoryError")
    /\ UNCHANGED <<mainArgs, logging_steps, n_gpu, effects>>

\* lines 671-681: the output directory check raises
MainOutputDirRaise ==
    /\ main_pc = "output_dir"
    /\ output_dir # "file"
    /\ OutputDirRefused
    /\ MainRaise(OutputDirError)
    /\ UNCHANGED <<mainArgs, logging_steps, n_gpu, effects>>

\* lines 671-681: the output directory check passes
MainOutputDirPass ==
    /\ main_pc = "output_dir"
    /\ output_dir # "file"
    /\ ~OutputDirRefused
    /\ main_pc' = "debug"
    /\ UNCHANGED <<mainArgs, logging_steps, n_gpu, main_err, effects>>

\* lines 684-690: distant debugging
MainDebug ==
    /\ main_pc = "debug"
    /\ effects' = IF remote_debug THEN effects \cup {"debugger"} ELSE effects
    /\ main_pc' = "device"
    /\ UNCHANGED <<mainArgs, logging_steps, n_gpu, main_err>>

\* lines 693-716: CUDA, GPU and distributed setup; torch.cuda.device_count()
\* is whatever the machine has
MainDevice ==
    /\ main_pc = "device"
    /\ IF local_rank = -1 \/ no_cuda
       THEN /\ n_gpu' \in 0..MaxGpu
            /\ effects' = effects \cup {"device"}
       ELSE /\ n_gpu' = 1
            /\ effects' = effects \cup {"device", "distributed"}
    /\ main_pc' = "args"
    /\ UNCHANGED <<mainArgs, logging_steps, main_err>>

\* line 725: total_batch_size, with gradient_accumulation_steps 1
TotalBatchSize == n_gpu * PerGpuTrainBatchSize

\* line 723: the assertion on the two logging flags fails
MainAssertFail ==
    /\ main_pc = "args"
    /\ logging_steps # -1 /\ logging_steps_in_sample # -1
    /\ MainRaise("AssertionError")
    /\ UNCHANGED <<mainArgs, logging_steps, n_gpu, effects>>

\* lines 724-726 with no GPU counted: a division by zero
MainArgsZeroDivision ==
    /\ main_pc = "args"
    /\ logging_steps = -1 /\ logging_steps_in_sample # -1
    /\ TotalBatchSize = 0
    /\ MainRaise("ZeroDivisionError")
    /\ UNCHANGED <<mainArgs, logging_steps, n_gpu, effects>>

\* lines 719-726: the arguments are preprocessed
MainArgsPass ==
    /\ main_pc = "args"
    /\ ~(logging_steps # -1 /\ logging_steps_in_sample # -1)
    /\ IF logging_steps = -1 /\ logging_steps_in_sample # -1
       THEN /\ TotalBatchSize # 0
            /\ logging_steps' = logging_steps_in_sample \div TotalBatchSize
       ELSE UNCHANGED logging_steps
    /\ main_pc' = "task"
    /\ UNCHANGED <<mainArgs, n_gpu, main_err, effects>>

\* lines 729-734: the seed is set; the task name is not a key of processors
MainTaskRaise ==
    /\ main_pc = "task"
    /\ task_name \notin Processors
    /\ effects' = effects \cup {"seed"}
    /\ MainRaise(TaskError)
    /\ UNCHANGED <<mainArgs, logging_steps, n_gpu>>

\* lines 729-734: the seed is set; the task name is known
MainTaskPass ==
    /\ main_pc = "task"
    /\ task_name \in Processors
    /\ effects' = effects \cup {"seed"}
    /\ main_pc' = "processors"
    /\ UNCHANGED <<mainArgs, logging_steps, n_gpu, main_err>>

\* the first position of tasks whose name is not a key of processors, 0 if none
RECURSIVE FirstUnknownFrom(_, _)
FirstUnknownFrom(tasks, k) ==
    IF k > Len(tasks) THEN 0
    ELSE IF tasks[k] \notin Processors THEN k
    ELSE FirstUnknownFrom(tasks, k + 1)
FirstUnknown(tasks) == FirstUnknownFrom(tasks, 1)

\* lines 736-741: processors[task_name] of an unknown train task, after the
\* processors of the tasks before it were made
MainProcessorsRaise ==
    /\ main_pc = "processors"
    /\ FirstUnknown(train_tasks) # 0
    /\ effects' = IF FirstUnknown(train_tasks) > 1
                  THEN effects \cup {"processors"} ELSE effects
    /\ MainRaise("KeyError")
    /\ UNCHANGED <<mainArgs, logging_steps, n_gpu>>

\* lines 736-741: a processor is made for every train task
MainProcessors ==
    /\ main_pc = "processors"
    /\ FirstUnknown(train_tasks) = 0
    /\ effects' = effects \cup {"processors"}
    /\ main_pc' = "model"
    /\ UNCHANGED <<mainArgs, logging_steps, n_gpu, main_err>>

\* lines 743-772: config, tokenizer and model are loaded
MainLoadModel ==
    /\ main_pc = "model"
    /\ effects' = effects \cup {"model"}
    /\ main_pc' = "train"
    /\ UNCHANGED <<mainArgs, logging_steps, n_gpu, main_err>>

\* lines 775-791: without --do_train nothing is trained
MainSkipTrain ==
    /\ main_pc = "train"
    /\ ~do_train
    /\ main_pc' = "save"
    /\ UNCHANGED <<mainArgs, logging_steps, n_gpu, main_err, effects>>

\* lines 775-791: the train datasets are loaded and train is called; it
\* writes under output_dir (lines 122 and 291-304) and returns or raises
MainTrain ==
    /\ main_pc = "train"
    /\ do_train
    /\ effects' = effects \cup {"files"}
    /\ \/ main_pc' = "save" /\ UNCHANGED main_err
       \/ MainRaise("TrainError")
    /\ UNCHANGED <<mainArgs, logging_steps, n_gpu>>

\* lines 794-819: the trained model is saved to output_dir by the first
\* process, and main returns
MainSaveReturn ==
    /\ main_pc = "save"
    /\ effects' = IF do_train /\ local_rank \in {-1, 0}
                  THEN effects \cup {"files"} ELSE effects
    /\ main_pc' = "returned"
    /\ UNCHANGED <<mainArgs, logging_steps, n_gpu, main_err>>

\* ------------------------------------------------- load_and_cache_examples
VARIABLES
    cache_files,    \* the names of the cached-features files that exist in
                    \* args.data_dir
    lac_args,       \* the arguments of the call: split, task, language, and of
                    \* args local_rank, overwrite_cache, data_cache_name ("" for
                    \* None), model_name_or_path and max_seq_length
    output_mode,    \* output_modes[task] for the task of the call
    lac_pc,         \* "idle", "called", "tensors" (line 480), "returned" or "raised"
    lac_err,        \* the exception that left the call, "" if none
    cached_features_file,   \* the local of line 435, "" before it is set
    features,       \* "none", "loaded" (line 455) or "created" (line 465)
    lac_log,        \* what the calls did so far, in order: <<"load" | "create" |
                    \* "write", the values formatted into the file name>>
                    \* (history)
    lac_calls       \* the number of calls made (history)

lacVars == <<cache_files, lac_args, output_mode, lac_pc, lac_err,
             cached_features_file, features, lac_log, lac_calls>>

\* line 432: list(filter(None, path.split("/"))).pop() for the paths the model
\* tells apart
LastPathPart(path) ==
    IF path = "models/xlmr/" THEN "xlmr" ELSE path

\* lines 432-434: the local data_cache_name
DataCacheName(args) ==
    IF args.data_cache_name # ""
    THEN args.data_cache_name
    ELSE LastPathPart(args.model_name_or_path)

\* lines 437-441: the values formatted into the file name
FormatArgs(args) ==
    <<args.split, DataCacheName(args), args.max_seq_length, args.task,
      args.language>>

\* mutant of CachedFeaturesFile: the language is left out of the name
CachedFeaturesFileNoLanguage(args) ==
    LET key == FormatArgs(args)
    IN  "cached_" \o key[1] \o "_" \o key[2] \o "_" \o ToString(key[3])
            \o "_" \o key[4]

\* lines 435-444: the file name of the cached features
CachedFeaturesFile(args) ==
    LET key == FormatArgs(args)
    IN  "cached_" \o key[1] \o "_" \o key[2] \o "_" \o ToString(key[3])
            \o "_" \o key[4] \o "_" \o key[5]

LacArgs(split, task, language, rank, overwrite, cache_name, path, length) ==
    [split |-> split, task |-> task, language |-> language, local_rank |-> rank,
     overwrite_cache |-> overwrite, data_cache_name |-> cache_name,
     model_name_or_path |-> path, max_seq_length |-> length]

\* no call of load_and_cache_examples yet, with files in data_dir
LacStart(mode, files) ==
    /\ cache_files = files
    /\ lac_args = LacArgs("train", "xnli", "en", -1, FALSE, "", "xlmr", 128)
    /\ output_mode = mode
    /\ lac_pc = "idle"
    /\ lac_err = ""
    /\ cached_features_file = ""
    /\ features = "none"
    /\ lac_log = <<>>
    /\ lac_calls = 0

\* no call of load_and_cache_examples yet, without cached files in data_dir
LacIdle(mode) == LacStart(mode, {})

\* a caller calls load_and_cache_examples(args, task, tokenizer, language, split)
LacCall(args) ==
    /\ lac_pc \in {"idle", "returned", "raised"}
    /\ lac_args' = args
    /\ lac_pc' = "called"
    /\ lac_err' = ""
    /\ cached_features_file' = ""
    /\ features' = "none"
    /\ lac_calls' = lac_calls + 1
    /\ UNCHANGED <<cache_files, output_mode, lac_log>>

\* line 426: evaluate == "train" compares the function evaluate of line 321
\* with a string
EvaluateIsTrain == FALSE

\* line 480: not evaluate, of the function evaluate
NotEvaluate == FALSE

\* line 425: the assertion on split fails
LacAssertFail ==
    /\ lac_pc = "called"
    /\ lac_args.split \notin {"train", "valid", "test"}
    /\ lac_pc' = "raised"
    /\ lac_err' = "AssertionError"
    /\ UNCHANGED <<cache_files, lac_args, output_mode, cached_features_file,
                   features, lac_log, lac_calls>>

\* lines 429-430: processors[task] of a task that is not a key
LacKeyError ==
    /\ lac_pc = "called"
    /\ lac_args.split \in {"train", "valid", "test"}
    /\ lac_args.task \notin Processors
    /\ lac_pc' = "raised"
    /\ lac_err' = "KeyError"
    /\ UNCHANGED <<cache_files, lac_args, output_mode, cached_features_file,
                   features, lac_log, lac_calls>>

\* lines 425-452 pass: the split and the task are known
LacAccepted ==
    /\ lac_pc = "called"
    /\ lac_args.split \in {"train", "valid", "test"}
    /\ lac_args.task \in Processors
    /\ cached_features_file' = CachedFeaturesFile(lac_args)
    /\ lac_pc' = "tensors"
    /\ UNCHANGED <<lac_args, output_mode, lac_err, lac_calls>>

\* line 453: os.path.exists(cached_features_file) and not args.overwrite_cache
UseCache(args, files) ==
    CachedFeaturesFile(args) \in files /\ ~args.overwrite_cache

\* lines 453-455: the features are loaded from the cached file
LacLoad ==
    /\ LacAccepted
    /\ UseCache(lac_args, cache_files)
    /\ features' = "loaded"
    /\ lac_log' = Append(lac_log, <<"load", FormatArgs(lac_args)>>)
    /\ UNCHANGED cache_files

\* line 476: args.local_rank in [-1, 0]
WritesCache(rank) == rank \in {-1, 0}

\* lines 456-478: the features are created and, on the first process, saved
LacCreate ==
    /\ LacAccepted
    /\ ~UseCache(lac_args, cache_files)
    /\ features' = "created"
    /\ IF WritesCache(lac_args.local_rank)
       THEN /\ cache_files' = cache_files \cup {cached_features_file'}
            /\ lac_log' = lac_log \o <<<<"create", FormatArgs(lac_args)>>,
                                       <<"write", FormatArgs(lac_args)>>>>
       ELSE /\ UNCHANGED cache_files
            /\ lac_log' = Append(lac_log, <<"create", FormatArgs(lac_args)>>)

\* lines 480-494: the tensors and the dataset are built
LacReturn ==
    /\ lac_pc = "tensors"
    /\ output_mode = "classification"
    /\ lac_pc' = "returned"
    /\ UNCHANGED <<cache_files, lac_args, output_mode, lac_err,
                   cached_features_file, features, lac_log, lac_calls>>

\* lines 480-491: no other output mode
LacValueError ==
    /\ lac_pc = "tensors"
    /\ output_mode # "classification"
    /\ lac_pc' = "raised"
    /\ lac_err' = "ValueError"
    /\ UNCHANGED <<cache_files, lac_args, output_mode, cached_features_file,
                   features, lac_log, lac_calls>>

\* ---------------------------------------------------------------- evaluate
VARIABLES
    eval_args,      \* args as evaluate uses it: local_rank, n_gpu, output_mode
                    \* and overwrite_cache
    single_gpu,     \* the argument single_gpu
    eval_task,      \* the argument task_name
    eval_langs,     \* TASK_LANGS[task_name].split(','), a sequence
    eval_batches,   \* the number of batches of each evaluation data loader
    eval_pc,        \* "idle", "called", "loop" (line 344), "loading" (line 346),
                    \* "batches" (line 364), "returned" or "raised"
    eval_err,       \* the exception that left evaluate, "" if none
    eval_datasets,  \* the (split, lang) pairs of lines 331-333
    eval_index,     \* the position of the loop of line 344 in eval_datasets
    nb_eval_steps,  \* the local of line 360
    forward_passes, \* the model forward passes of this call (history)
    results         \* the keys of the dictionary results, in insertion order

evalVars == <<eval_args, single_gpu, eval_task, eval_langs, eval_batches,
              eval_pc, eval_err, eval_datasets, eval_index, nb_eval_steps,
              forward_passes, results>>

EvalArgs(rank, gpus, mode, overwrite) ==
    [local_rank |-> rank, n_gpu |-> gpus, output_mode |-> mode,
     overwrite_cache |-> overwrite]

\* evaluate(args, task_name, task_idx, model, tokenizer, single_gpu=single)
\* is called; batches is the length of each of its data loaders
EvalCalled(args, single, task, langs, batches) ==
    /\ eval_args = args
    /\ single_gpu = single
    /\ eval_task = task
    /\ eval_langs = langs
    /\ eval_batches = batches
    /\ eval_pc = "called"
    /\ eval_err = ""
    /\ eval_datasets = <<>>
    /\ eval_index = 0
    /\ nb_eval_steps = 0
    /\ forward_passes = 0
    /\ results = <<>>

\* no call of evaluate
EvalIdle ==
    /\ eval_args = EvalArgs(-1, 0, "classification", FALSE)
    /\ single_gpu = FALSE
    /\ eval_task = "xnli"
    /\ eval_langs = <<>>
    /\ eval_batches = 0
    /\ eval_pc = "idle"
    /\ eval_err = ""
    /\ eval_datasets = <<>>
    /\ eval_index = 0
    /\ nb_eval_steps = 0
    /\ forward_passes = 0
    /\ results = <<>>

\* lines 331-333: every language of the valid split, then of the test split
EvalDatasets(langs) ==
    [k \in 1..(2 * Len(langs)) |->
        IF k <= Len(langs) THEN <<"valid", langs[k]>>
        ELSE <<"test", langs[k - Len(langs)]>>]

\* line 345: "{0}-{1}".format(split, lang)
ResultName(dataset) == dataset[1] \o "-" \o dataset[2]

\* lines 322-342: the copy of args for single_gpu and the list of datasets
EvalSetup ==
    /\ eval_pc = "called"
    /\ eval_args' = IF single_gpu
                    THEN [eval_args EXCEPT !.local_rank = -1, !.n_gpu = 1]
                    ELSE eval_args
    /\ eval_datasets' = EvalDatasets(eval_langs)
    /\ eval_index' = 1
    /\ eval_pc' = "loop"
    /\ UNCHANGED <<single_gpu, eval_task, eval_langs, eval_batches, eval_err,
                   nb_eval_steps, forward_passes, results>>
    /\ UNCHANGED lacVars

\* lines 344-346: the next dataset is asked of load_and_cache_examples
EvalLoad ==
    /\ eval_pc = "loop"
    /\ eval_index <= Len(eval_datasets)
    /\ LacCall(LacArgs(eval_datasets[eval_index][1], eval_task,
                       eval_datasets[eval_index][2], eval_args.local_rank,
                       eval_args.overwrite_cache, "", "models/xlmr/", 128))
    /\ eval_pc' = "loading"
    /\ UNCHANGED <<eval_args, single_gpu, eval_task, eval_langs, eval_batches,
                   eval_err, eval_datasets, eval_index, nb_eval_steps,
                   forward_passes, results>>

\* line 346: the exception of load_and_cache_examples leaves evaluate
EvalLoadRaised ==
    /\ eval_pc = "loading"
    /\ lac_pc = "raised"
    /\ eval_pc' = "raised"
    /\ eval_err' = lac_err
    /\ UNCHANGED <<eval_args, single_gpu, eval_task, eval_langs, eval_batches,
                   eval_datasets, eval_index, nb_eval_steps, forward_passes,
                   results>>
    /\ UNCHANGED lacVars

\* lines 346-363: the data loader of the dataset
EvalLoaded ==
    /\ eval_pc = "loading"
    /\ lac_pc = "returned"
    /\ nb_eval_steps' = 0
    /\ eval_pc' = "batches"
    /\ UNCHANGED <<eval_args, single_gpu, eval_task, eval_langs, eval_batches,
                   eval_err, eval_datasets, eval_index, forward_passes, results>>
    /\ UNCHANGED lacVars

\* lines 364-383: one batch goes through the model
EvalBatch ==
    /\ eval_pc = "batches"
    /\ nb_eval_steps < eval_batches
    /\ nb_eval_steps' = nb_eval_steps + 1
    /\ forward_passes' = forward_passes + 1
    /\ UNCHANGED <<eval_args, single_gpu, eval_task, eval_langs, eval_batches,
                   eval_pc, eval_err, eval_datasets, eval_index, results>>
    /\ UNCHANGED lacVars

\* line 385: eval_loss / nb_eval_steps after no batch
EvalZeroDivision ==
    /\ eval_pc = "batches"
    /\ nb_eval_steps = eval_batches
    /\ nb_eval_steps = 0
    /\ eval_pc' = "raised"
    /\ eval_err' = "ZeroDivisionError"
    /\ UNCHANGED <<eval_args, single_gpu, eval_task, eval_langs, eval_batches,
                   eval_datasets, eval_index, nb_eval_steps, forward_passes,
                   results>>
    /\ UNCHANGED lacVars

\* lines 385-389: no other output mode
EvalValueError ==
    /\ eval_pc = "batches"
    /\ nb_eval_steps = eval_batches
    /\ nb_eval_steps # 0
    /\ eval_args.output_mode # "classification"
    /\ eval_pc' = "raised"
    /\ eval_err' = "ValueError"
    /\ UNCHANGED <<eval_args, single_gpu, eval_task, eval_langs, eval_batches,
                   eval_datasets, eval_index, nb_eval_steps, forward_passes,
                   results>>
    /\ UNCHANGED lacVars

\* lines 385-391: the metrics of the dataset are stored
EvalResult ==
    /\ eval_pc = "batches"
    /\ nb_eval_steps = eval_batches
    /\ nb_eval_steps # 0
    /\ eval_args.output_mode = "classification"
    /\ results' = Append(results, ResultName(eval_datasets[eval_index]))
    /\ eval_index' = eval_index + 1
    /\ eval_pc' = "loop"
    /\ UNCHANGED <<eval_args, single_gpu, eval_task, eval_langs, eval_batches,
                   eval_err, eval_datasets, nb_eval_steps, forward_passes>>
    /\ UNCHANGED lacVars

\* lines 393-404: the averages are added and the results written and returned
EvalReturn ==
    /\ eval_pc = "loop"
    /\ eval_index > Len(eval_datasets)
    /\ results' = results \o <<"test_avg", "valid_avg">>
    /\ eval_pc' = "returned"
    /\ UNCHANGED <<eval_args, single_gpu, eval_task, eval_langs, eval_batches,
                   eval_err, eval_datasets, eval_index, nb_eval_steps,
                   forward_passes>>
    /\ UNCHANGED lacVars

\* ------------------------------------------- main in distributed training
VARIABLES
    dist_args,      \* what the processes of one launch share: the number of
                    \* processes (their local ranks are 0..world_size - 1) and
                    \* of args no_cuda and overwrite_cache
    procs,          \* per local rank: pc, the position in main ("init" at line
                    \* 744, "barrier" inside torch.distributed.barrier(),
                    \* "load" at line 747, "loading" inside from_pretrained,
                    \* "train" at line 775, "exists" at line 453, "save" and
                    \* "saving" at line 478, "done" at line 790, "raised");
                    \* then, the position after the barrier; barriers, the
                    \* calls of barrier() made; model ("none", "loading",
                    \* "loaded"); features ("none", "loaded", "created"); read,
                    \* the state of the file when torch.load read it; err
    shared_file     \* the cached-features file of the training key in
                    \* data_dir: "absent", "partial" (torch.save has begun) or
                    \* "complete"

distVars == <<dist_args, procs, shared_file>>

Ranks == 0..(dist_args.world_size - 1)

\* lines 694-701: init_process_group is called unless local_rank is -1 or
\* no_cuda is set
ProcessGroupInitialized == ~dist_args.no_cuda

ProcStart ==
    [pc |-> "init", then |-> "", barriers |-> 0, model |-> "none",
     features |-> "none", read |-> "", err |-> ""]

\* a launch of size processes
DistLaunched(size, cpu, overwrite, file) ==
    /\ dist_args = [world_size |-> size, no_cuda |-> cpu,
                    overwrite_cache |-> overwrite]
    /\ procs = [rank \in 0..(size - 1) |-> ProcStart]
    /\ shared_file = file

\* no distributed launch
DistIdle ==
    /\ dist_args = [world_size |-> 0, no_cuda |-> FALSE,
                    overwrite_cache |-> FALSE]
    /\ procs = <<>>
    /\ shared_file = "absent"

\* the process goes on at pc
GoTo(proc, pc) == [proc EXCEPT !.pc = pc]

\* torch.distributed.barrier() is called, to go on at pc: without a process
\* group the call raises
CallBarrier(proc, pc) ==
    IF ProcessGroupInitialized
    THEN [proc EXCEPT !.pc = "barrier", !.then = pc,
                      !.barriers = proc.barriers + 1]
    ELSE [proc EXCEPT !.pc = "raised", !.err = "RuntimeError"]

\* mutant of BarrierOpen: the barrier does not wait for the other processes
BarrierOpenAlways(rank) == TRUE

\* the barrier lets a process go when every process has made as many calls
BarrierOpen(rank) ==
    \A other \in Ranks : procs[other].barriers >= procs[rank].barriers

\* lines 744-745: every process but the first waits before it loads
DistStart(rank) ==
    /\ procs[rank].pc = "init"
    /\ procs' = [procs EXCEPT ![rank] =
                    IF rank \notin {-1, 0}
                    THEN CallBarrier(procs[rank], "load")
                    ELSE GoTo(procs[rank], "load")]
    /\ UNCHANGED <<dist_args, shared_file>>

\* torch.distributed.barrier() returns
DistBarrierPass(rank) ==
    /\ procs[rank].pc = "barrier"
    /\ BarrierOpen(rank)
    /\ procs' = [procs EXCEPT ![rank] = GoTo(procs[rank], procs[rank].then)]
    /\ UNCHANGED <<dist_args, shared_file>>

\* lines 747-749: the download of config, tokenizer and model begins
DistLoadBegin(rank) ==
    /\ procs[rank].pc = "load"
    /\ procs' = [procs EXCEPT ![rank] =
                    [procs[rank] EXCEPT !.pc = "loading", !.model = "loading"]]
    /\ UNCHANGED <<dist_args, shared_file>>

\* lines 749-768: they are loaded; the first process then calls the barrier
DistLoadEnd(rank) ==
    /\ procs[rank].pc = "loading"
    /\ procs' = [procs EXCEPT ![rank] =
                    LET loaded == [procs[rank] EXCEPT !.model = "loaded"]
                    IN  IF rank = 0
                        THEN CallBarrier(loaded, "train")
                        ELSE GoTo(loaded, "train")]
    /\ UNCHANGED <<dist_args, shared_file>>

\* lines 775-784 and 425-452: the call of load_and_cache_examples for the
\* training data
DistLacEnter(rank) ==
    /\ procs[rank].pc = "train"
    /\ procs' = [procs EXCEPT ![rank] =
                    IF rank \notin {-1, 0} /\ EvaluateIsTrain
                    THEN CallBarrier(procs[rank], "exists")
                    ELSE GoTo(procs[rank], "exists")]
    /\ UNCHANGED <<dist_args, shared_file>>

\* lines 480-481 and 484-494, 785-790: after the features
AfterFeatures(proc, rank) ==
    IF rank = 0 /\ NotEvaluate
    THEN CallBarrier(proc, "done")
    ELSE GoTo(proc, "done")

\* lines 453-455: the file exists and is read; torch.load of a file that is
\* not written to its end raises
DistLacLoad(rank) ==
    /\ procs[rank].pc = "exists"
    /\ shared_file # "absent" /\ ~dist_args.overwrite_cache
    /\ procs' = [procs EXCEPT ![rank] =
                    LET read == [procs[rank] EXCEPT !.read = shared_file]
                    IN  IF shared_file = "partial"
                        THEN [read EXCEPT !.pc = "raised", !.err = "EOFError"]
                        ELSE AfterFeatures([read EXCEPT !.features = "loaded"],
                                           rank)]
    /\ UNCHANGED <<dist_args, shared_file>>

\* lines 456-476: the features are created
DistLacCreate(rank) ==
    /\ procs[rank].pc = "exists"
    /\ ~(shared_file # "absent" /\ ~dist_args.overwrite_cache)
    /\ procs' = [procs EXCEPT ![rank] =
                    LET created == [procs[rank] EXCEPT !.features = "created"]
                    IN  IF WritesCache(rank)
                        THEN GoTo(created, "save")
                        ELSE AfterFeatures(created, rank)]
    /\ UNCHANGED <<dist_args, shared_file>>

\* line 478: torch.save opens the file
DistLacSaveBegin(rank) ==
    /\ procs[rank].pc = "save"
    /\ shared_file' = "partial"
    /\ procs' = [procs EXCEPT ![rank] = GoTo(procs[rank], "saving")]
    /\ UNCHANGED dist_args

\* line 478: torch.save has written the file
DistLacSaveEnd(rank) ==
    /\ procs[rank].pc = "saving"
    /\ shared_file' = "complete"
    /\ procs' = [procs EXCEPT ![rank] = AfterFeatures(procs[rank], rank)]
    /\ UNCHANGED dist_args

\* no generator
GenIdle ==
    /\ dataset_size = <<>>
    /\ dataset_list = <<>>
    /\ task_ratio = 1
    /\ gen_pc = "idle"
    /\ gen_err = ""
    /\ iterators = <<>>
    /\ probs = <<>>
    /\ i = 0
    /\ selectable = {}
    /\ item = -1
    /\ yield_count = <<>>

vars == <<genVars, avgVars, trainVars, mainVars, lacVars, evalVars, distVars>>
otherThanGen == <<avgVars, trainVars, mainVars, lacVars, evalVars, distVars>>
otherThanAvg == <<genVars, trainVars, mainVars, lacVars, evalVars, distVars>>
otherThanTrain == <<avgVars, mainVars, lacVars, evalVars, distVars>>
otherThanMain == <<genVars, avgVars, trainVars, lacVars, evalVars, distVars>>
otherThanLac == <<genVars, avgVars, trainVars, mainVars, evalVars, distVars>>
otherThanEval == <<genVars, avgVars, trainVars, mainVars, distVars>>
otherThanDist == <<genVars, avgVars, trainVars, mainVars, lacVars, evalVars>>

\* -------------------------------------------- merge_dataset on its own
InitMerge ==
    /\ \E sizes \in SizeVectors, batch \in 1..MaxBatch, ratio \in 0..2 :
          GenCreated(sizes, batch, ratio)
    /\ AvgIdle
    /\ TrainIdle
    /\ MainIdle
    /\ LacIdle("classification")
    /\ EvalIdle
    /\ DistIdle

\* the consumer asks for at most MaxYield items
MergeZeroDivision == GenZeroDivision /\ UNCHANGED otherThanGen
MergeSetup == GenSetup /\ UNCHANGED otherThanGen
MergeIndexError == GenIndexError /\ UNCHANGED otherThanGen
MergeYield ==
    /\ Yielded < MaxYield
    /\ \E sel \in TaskIndices : GenYield(sel)
    /\ UNCHANGED otherThanGen
MergeRestart ==
    /\ Yielded < MaxYield
    /\ \E sel \in TaskIndices : GenRestart(sel)
    /\ UNCHANGED otherThanGen
MergeExhausted ==
    /\ Yielded < MaxYield
    /\ \E sel \in TaskIndices : GenExhausted(sel)
    /\ UNCHANGED otherThanGen

NextMerge ==
    \/ MergeZeroDivision
    \/ MergeSetup
    \/ MergeIndexError
    \/ MergeYield
    \/ MergeRestart
    \/ MergeExhausted

SpecMerge == InitMerge /\ [][NextMerge]_vars

\* ---------------------------------------------- average_dic on its own
InitAvg ==
    /\ \E list \in DicLists : AvgCalled(list)
    /\ GenIdle
    /\ TrainIdle
    /\ MainIdle
    /\ LacIdle("classification")
    /\ EvalIdle
    /\ DistIdle

NextAvg ==
    \/ AvgReturnEmpty /\ UNCHANGED otherThanAvg
    \/ AvgCopy /\ UNCHANGED otherThanAvg
    \/ AvgAssertFail /\ UNCHANGED otherThanAvg
    \/ AvgAdd /\ UNCHANGED otherThanAvg
    \/ AvgDivide /\ UNCHANGED otherThanAvg

SpecAvg == InitAvg /\ [][NextAvg]_vars

\* ------------------------------------------------------ train on its own
\* the lengths of the train datasets of a call
TrainSizes == {<<>>, <<0>>, <<1>>, <<2>>, <<1, 2>>, <<1, 2, 0>>}

StepLimits == {-1, 1, 2}

\* the values of args.logging_steps as train gets it
LoggingSteps == {0, 1, 2}

InitTrain ==
    /\ \E sizes \in TrainSizes, batch \in 1..MaxBatch, ratio \in 1..2 :
          GenArgs(sizes, batch, ratio) /\ gen_pc = "idle"
    /\ \E ms \in StepLimits, bs \in StepLimits, gas \in 1..MaxGas,
          epochs \in 1..2, each_epoch \in BOOLEAN :
          TrainCalled(ms, bs, gas, epochs, each_epoch)
    /\ AvgIdle
    /\ \E rank \in {-1, 0, 1}, ls \in LoggingSteps :
          MainArgs("missing", TRUE, FALSE, FALSE, rank, FALSE, ls, -1, "xnli",
                   <<"xnli">>)
    /\ main_pc = "idle"
    /\ flags_set = {}
    /\ LacIdle("classification")
    /\ EvalIdle
    /\ DistIdle

NextTrain ==
    \/ TrainUnbound /\ UNCHANGED otherThanTrain
    \/ TrainZeroDivision /\ UNCHANGED otherThanTrain
    \/ TrainSetup /\ UNCHANGED otherThanTrain
    \/ TrainFirstNext /\ UNCHANGED otherThanTrain
    \/ TrainGenZeroDivision /\ UNCHANGED otherThanTrain
    \/ TrainGenExhausted /\ UNCHANGED otherThanTrain
    \/ TrainBatch /\ UNCHANGED otherThanTrain
    \/ TrainSave /\ UNCHANGED otherThanTrain
    \/ TrainSaveZeroDivision /\ UNCHANGED otherThanTrain
    \/ TrainReturn /\ UNCHANGED otherThanTrain
    \/ TrainReturnZeroDivision /\ UNCHANGED otherThanTrain

SpecTrain == InitTrain /\ [][NextTrain]_vars

\* ------------------------------------------------------- main on its own
OutputDirs == {"missing", "empty", "nonempty", "file"}

TaskNames == {"xnli", "unknown"}

TaskLists == {<<"xnli">>, <<"xnli", "pawsx">>, <<"xnli", "unknown">>, <<"unknown">>}

LoggingFlags == {"logging_steps", "logging_steps_in_sample"}

\* the default of --logging_steps
LoggingStepsDefault == 50

\* lines 636 and 638, parse_args: args.logging_steps is ls and
\* args.logging_steps_in_sample is lsis when the command line sets the flags
\* of set; a flag not given has its default, 50 and -1
ParsedLoggingFlags(set, ls, lsis) ==
    /\ ls # LoggingStepsDefault => ("logging_steps" \in set <=> ls # -1)
    /\ "logging_steps_in_sample" \in set <=> lsis # -1

InitMain ==
    /\ \E dir \in OutputDirs, train \in BOOLEAN, overwrite \in BOOLEAN,
          debug \in BOOLEAN, rank \in {-1, 0, 1}, cpu \in BOOLEAN,
          ls \in {-1, 20, LoggingStepsDefault}, lsis \in {-1, 100},
          task \in TaskNames, tasks \in TaskLists, set \in SUBSET LoggingFlags :
          /\ ParsedLoggingFlags(set, ls, lsis)
          /\ flags_set = set
          /\ MainArgs(dir, train, overwrite, debug, rank, cpu, ls, lsis, task, tasks)
    /\ main_pc = "output_dir"
    /\ GenIdle
    /\ AvgIdle
    /\ TrainIdle
    /\ LacIdle("classification")
    /\ EvalIdle
    /\ DistIdle

NextMain ==
    \/ MainNotADirectory /\ UNCHANGED otherThanMain
    \/ MainOutputDirRaise /\ UNCHANGED otherThanMain
    \/ MainOutputDirPass /\ UNCHANGED otherThanMain
    \/ MainDebug /\ UNCHANGED otherThanMain
    \/ MainDevice /\ UNCHANGED otherThanMain
    \/ MainAssertFail /\ UNCHANGED otherThanMain
    \/ MainArgsZeroDivision /\ UNCHANGED otherThanMain
    \/ MainArgsPass /\ UNCHANGED otherThanMain
    \/ MainTaskRaise /\ UNCHANGED otherThanMain
    \/ MainTaskPass /\ UNCHANGED otherThanMain
    \/ MainProcessorsRaise /\ UNCHANGED otherThanMain
    \/ MainProcessors /\ UNCHANGED otherThanMain
    \/ MainLoadModel /\ UNCHANGED otherThanMain
    \/ MainSkipTrain /\ UNCHANGED otherThanMain
    \/ MainTrain /\ UNCHANGED otherThanMain
    \/ MainSaveReturn /\ UNCHANGED otherThanMain

SpecMain == InitMain /\ [][NextMain]_vars

\* ------------------------------------- load_and_cache_examples on its own
OutputModes == {"classification", "regression"}

\* the arguments of the calls
CallArgs ==
    {LacArgs(split, task, language, rank, overwrite, name, "models/xlmr/", 128) :
        split \in {"train", "valid", "dev"},
        task \in {"xnli", "unknown"}, language \in {"en", "de"},
        rank \in {-1, 0, 1}, overwrite \in BOOLEAN,
        name \in {"", "xlmr", "mycache"}}

InitCache ==
    /\ \E mode \in OutputModes : LacIdle(mode)
    /\ EvalIdle
    /\ DistIdle
    /\ GenIdle
    /\ AvgIdle
    /\ TrainIdle
    /\ MainIdle

CacheCall ==
    /\ lac_calls < MaxCalls
    /\ \E args \in CallArgs : LacCall(args)
    /\ UNCHANGED otherThanLac

NextCache ==
    \/ CacheCall
    \/ LacAssertFail /\ UNCHANGED otherThanLac
    \/ LacKeyError /\ UNCHANGED otherThanLac
    \/ LacLoad /\ UNCHANGED otherThanLac
    \/ LacCreate /\ UNCHANGED otherThanLac
    \/ LacReturn /\ UNCHANGED otherThanLac
    \/ LacValueError /\ UNCHANGED otherThanLac

SpecCache == InitCache /\ [][NextCache]_vars

\* ------------------------------------------------- claims on merge_dataset
NumTasks == Len(dataset_list)
Tasks == 1..NumTasks

RECURSIVE RSumFrom(_, _, _)
RSumFrom(s, k, n) ==
    IF k > n THEN RZero ELSE RAddExact(s[k], RSumFrom(s, k + 1, n))
\* the exact sum of the first n entries of s
RSumFirst(s, n) == RSumFrom(s, 1, n)

\* the list is not empty and no task dataset is empty
AllNonEmpty ==
    /\ NumTasks > 0
    /\ \A j \in Tasks : dataset_list[j] > 0 /\ dataset_size[j] > 0

\* C1 as stated: merge_dataset never terminates and never raises, whatever
\* the datasets, the sizes and task_ratio are.
C1_NeverEndsNorRaises == gen_pc \in {"created", "ready", "running"} /\ gen_err = ""

\* C1 amended: for a non-empty list of non-empty task datasets (every size
\* positive) the generator never ends and never raises: every next() can be
\* answered and is answered with a pair (i, item), i a task index and item an
\* item of task i, the one its (possibly restarted) iterator just produced.
C1_NonEmptyNeverEnds ==
    AllNonEmpty =>
        /\ gen_pc \in {"created", "ready", "running"}
        /\ gen_err = ""
        /\ gen_pc = "created" => ~ProbsRaise(dataset_size, task_ratio)
        /\ gen_pc = "running" =>
              /\ i \in 0..(NumTasks - 1)
              /\ item \in 0..(dataset_list[i + 1] - 1)
              /\ item = iterators[i + 1] - 1
        /\ (gen_pc # "created" /\ Yielded < MaxYield) =>
              ENABLED (MergeYield \/ MergeRestart)

\* C1's case: a task has yielded more items than one pass over it holds, so
\* its exhausted iterator has been restarted
C1_RestartedWitness ==
    /\ AllNonEmpty
    /\ gen_pc = "running"
    /\ yield_count[i + 1] > dataset_list[i + 1]
    /\ item = 0

\* the position of an iterator over a dataset of len items that has yielded n
\* items in consecutive complete passes
PassPosition(n, len) == IF n = 0 THEN 0 ELSE ((n - 1) % len) + 1

\* C2: each task dataset is cycled independently: the n-th item yielded for
\* task i is element (n-1) mod len_i of a pass, and every task's iterator
\* stands where its own yields alone put it, whatever was drawn for the others.
C2_IndependentCycling ==
    gen_pc = "running" =>
        /\ item = (yield_count[i + 1] - 1) % dataset_list[i + 1]
        /\ \A j \in Tasks :
              dataset_list[j] > 0 =>
                  iterators[j] = PassPosition(yield_count[j], dataset_list[j])

\* C2's case: one task has been restarted while another one is in mid-pass
C2_InterleavedWitness ==
    /\ gen_pc = "running"
    /\ \E j, l \in Tasks :
          /\ j # l
          /\ yield_count[j] > dataset_list[j]
          /\ yield_count[l] > 0
          /\ iterators[l] < dataset_list[l]

\* lines 105-110 have selected a task: its item is being yielded, or its
\* dataset turned out empty
TaskSelected ==
    gen_pc = "running" \/ gen_err \in {"RuntimeError", "StopIteration"}

\* C3: for every draw r the selected index is the one whose cumulative
\* interval [p_0+...+p_(i-1), p_0+...+p_i) contains r; the yielded index is
\* within 0..k-1 and a task of probability 0 is never selected.
C3_SelectsCumulativeInterval ==
    (NumTasks > 0 /\ probs # <<>>) =>
        /\ TaskSelected => i \in 0..(NumTasks - 1) /\ probs[i + 1] # RZero
        /\ \A r \in Draws :
              LET sel == SelectTask(probs, r)
              IN  /\ RLeq(RSumFirst(probs, sel), r)
                  /\ RLess(r, RSumFirst(probs, sel + 1))

\* C3's case in the code: a task of probability 0 is selected
C3_ZeroProbabilitySelected ==
    TaskSelected /\ task_ratio > 0 /\ probs[i + 1] = RZero

\* C4 as stated: the probability vector is always computed and sums to 1,
\* every entry between 0 and 1, also when some or all sizes are 0.
C4_ProbsSumToOne ==
    gen_pc # "created" =>
        /\ gen_err # "ZeroDivisionError"
        /\ NumTasks > 0 =>
              /\ Len(probs) = NumTasks
              /\ FSum(probs) = ROne
              /\ \A j \in Tasks : RLeq(RZero, probs[j]) /\ RLeq(probs[j], ROne)

\* C4 amended: when the sizes are not all 0 the vector is computed, every
\* entry is between 0 and 1 and the entries sum to 1 up to rounding: their
\* exact sum differs from 1 by at most 2k units of 2^-Prec, k the number of
\* tasks; when all sizes are 0 the first next() raises ZeroDivisionError.
C4_ProbsSumNearOne ==
    (gen_pc # "created" /\ NumTasks > 0) =>
        IF ISum(dataset_size) = 0
        THEN gen_pc = "raised" /\ gen_err = "ZeroDivisionError" /\ probs = <<>>
        ELSE /\ Len(probs) = NumTasks
             /\ \A j \in Tasks : RLeq(RZero, probs[j]) /\ RLeq(probs[j], ROne)
             /\ RLeq(RAbs(RSubExact(RSumFirst(probs, NumTasks), ROne)),
                     Rat(2 * NumTasks, TwoP))

\* C4's case: some size is 0, the vector is computed and rounding shows
C4_RoundedWitness ==
    /\ gen_pc = "running"
    /\ \E j \in Tasks : dataset_size[j] = 0
    /\ RSumFirst(probs, NumTasks) # ROne

\* s_i^r / sum_j s_j^r, the exact value of ((s_i/S)^r) / sum_j ((s_j/S)^r)
ExactProb(size, ratio, j) ==
    Rat(IPow(size[j], ratio),
        ISum([l \in 1..Len(size) |-> IPow(size[l], ratio)]))

\* C5 as stated: p_i is (s_i/S)^r / sum_j (s_j/S)^r; r = 1 gives s_i/S and
\* r = 0 gives 1/k whatever the sizes (each read as the nearest float).
C5_ProbsAreTheFormula ==
    (gen_pc # "created" /\ NumTasks > 0) =>
        /\ task_ratio = 0 =>
              /\ Len(probs) = NumTasks
              /\ \A j \in Tasks : probs[j] = Fl(Rat(1, NumTasks))
        /\ ISum(dataset_size) > 0 =>
              /\ \A j \in Tasks :
                    probs[j] = Fl(ExactProb(dataset_size, task_ratio, j))
              /\ task_ratio = 1 =>
                    \A j \in Tasks :
                        probs[j] = Fl(Rat(dataset_size[j], ISum(dataset_size)))

\* the rounding allowance of C5: 2 * (2r + k + 2) units of 2^-Prec
ProbTolerance == Rat(2 * (2 * task_ratio + NumTasks + 2), TwoP)

\* C5 amended: when the sum S of the sizes is positive, p_i is the formula's
\* value up to rounding (relative error at most 2(2r+k+2) 2^-Prec), so r = 1
\* gives s_i/S up to rounding, and r = 0 gives exactly the float nearest 1/k;
\* when all sizes are 0 no probability is computed (ZeroDivisionError).
C5_ProbsNearTheFormula ==
    (gen_pc # "created" /\ NumTasks > 0) =>
        IF ISum(dataset_size) = 0
        THEN gen_err = "ZeroDivisionError" /\ probs = <<>>
        ELSE /\ Len(probs) = NumTasks
             /\ \A j \in Tasks :
                   LET e == ExactProb(dataset_size, task_ratio, j)
                   IN  RLeq(RAbs(RSubExact(probs[j], e)),
                            RMulExact(ProbTolerance, e))
             /\ task_ratio = 0 =>
                   \A j \in Tasks : probs[j] = Fl(Rat(1, NumTasks))

\* C5's case: unequal sizes under task_ratio 2, with the rounding showing
C5_SkewedWitness ==
    /\ gen_pc = "running"
    /\ task_ratio = 2
    /\ \E j, l \in Tasks : dataset_size[j] < dataset_size[l]
    /\ \E j \in Tasks : probs[j] # ExactProb(dataset_size, task_ratio, j)

\* ---------------------------------------------------- claims on average_dic
\* the dictionaries of the list all have the same key set
SameKeys == \A a, b \in 1..Len(dic_list) : DOMAIN dic_list[a] = DOMAIN dic_list[b]

AvgDone == avg_pc \in {"returned", "raised"}

\* C6: for a non-empty list whose dictionaries do not all have identical key
\* sets, in any order and also with empty dictionaries in it, average_dic
\* raises an assertion failure.
C6_RaisesOnDifferentKeys ==
    (AvgDone /\ Len(dic_list) > 0 /\ ~SameKeys) =>
        avg_pc = "raised" /\ avg_err = "AssertionError"

\* C6's case in the code: key sets differ and average_dic returns a value
C6_ReturnedDespiteDifferentKeys ==
    avg_pc = "returned" /\ ~SameKeys /\ avg_result # EmptyDic

\* the values of key in the first n dictionaries, added in list order
RECURSIVE KeySum(_, _, _)
KeySum(list, key, n) ==
    IF n = 1 THEN list[1][key]
    ELSE FAdd(KeySum(list, key, n - 1), list[n][key])

\* the exact sum of the values of key in the first n dictionaries
RECURSIVE KeySumExact(_, _, _)
KeySumExact(list, key, n) ==
    IF n = 0 THEN RZero
    ELSE RAddExact(KeySumExact(list, key, n - 1), list[n][key])

\* C7: average_dic returns {} for an empty list; for a non-empty list of
\* dictionaries with identical key sets it returns (never raises) a dictionary
\* with exactly that key set, each key mapped to the sum of its values, added
\* in list order, divided by the number of dictionaries: the arithmetic mean,
\* within Len(dic_list) + 1 roundings of its exact value.
C7_ReturnsTheMean ==
    (AvgDone /\ SameKeys) =>
        /\ avg_pc = "returned"
        /\ Len(dic_list) = 0 => avg_result = EmptyDic
        /\ Len(dic_list) > 0 =>
              /\ DOMAIN avg_result = DOMAIN dic_list[1]
              /\ \A key \in DOMAIN avg_result :
                    LET n == Len(dic_list)
                        mean == RDivExact(KeySumExact(dic_list, key, n), Rat(n, 1))
                    IN  /\ avg_result[key] = FDiv(KeySum(dic_list, key, n), Rat(n, 1))
                        /\ RLeq(RAbs(RSubExact(avg_result[key], mean)),
                                RMulExact(Rat(n + 1, TwoP), mean))

\* C7's case: several dictionaries with the same keys and different values
C7_AveragedWitness ==
    /\ avg_pc = "returned"
    /\ SameKeys
    /\ Len(dic_list) >= 2
    /\ DOMAIN avg_result = MetricKeys
    /\ avg_result["acc"] # avg_result["f1"]
    /\ \E a, b \in 1..Len(dic_list) : dic_list[a]["acc"] # dic_list[b]["acc"]

\* ---------------------------------------------------------- claims on train
\* C8: with max_steps > 0 (and no break_steps, over non-empty datasets) train
\* makes exactly max_steps updates: the global_step it returns and the number
\* of the checkpoint directory equal max_steps and do not exceed t_total.
C8_MaxStepsIsTotal ==
    (train_pc = "returned" /\ max_steps > 0 /\ break_steps <= 0 /\ AllNonEmpty) =>
        /\ train_result = max_steps
        /\ checkpoint = max_steps
        /\ global_step <= t_total

\* C9: with max_steps <= 0 (and no break_steps, over non-empty datasets)
\* train performs num_train_epochs epochs and then leaves the loop: it never
\* processes more batches than num_train_epochs passes over all the train
\* DataLoaders hold, nor makes more updates than t_total.
C9_EndsAfterEpochs ==
    (train_pc \in {"loop", "save", "saved", "returned"}
        /\ max_steps <= 0 /\ break_steps <= 0 /\ AllNonEmpty) =>
        /\ step <= num_train_epochs * ISum(dataset_list)
        /\ global_step <= t_total

\* ----------------------------------------------------------- claims on main
\* the stages of main from the device setup on
MainStarted == main_pc # "idle" /\ main_pc # "output_dir"

\* C10 as stated: whenever the output directory exists, is not empty and
\* overwrite_output_dir is not set, main raises ValueError, whatever the other
\* flags are, before any device or distributed setup, model load or file write.
C10_RefusesNonEmptyOutputDir ==
    (MainStarted /\ output_dir = "nonempty" /\ ~overwrite_output_dir) =>
        /\ main_pc = "raised"
        /\ main_err = OutputDirError
        /\ effects = {}

\* C10 amended: main raises that ValueError exactly when the output directory
\* exists and is not empty, do_train is set and overwrite_output_dir is not,
\* whatever the other flags are, and then nothing has been done before it: no
\* debugger, device or distributed setup, no model load, no file write.
C10_RefusesNonEmptyOutputDirToTrain ==
    MainStarted =>
        IF output_dir = "nonempty" /\ do_train /\ ~overwrite_output_dir
        THEN /\ main_pc = "raised"
             /\ main_err = OutputDirError
             /\ effects = {}
             /\ n_gpu = -1
        ELSE main_err # OutputDirError

\* C10's case: the check raises in a distributed run with every other flag set
C10_RefusedWitness ==
    /\ main_pc = "raised"
    /\ main_err = OutputDirError
    /\ remote_debug
    /\ local_rank = 1
    /\ logging_steps # -1 /\ logging_steps_in_sample # -1
    /\ task_name \notin Processors

\* lines 729-741 have run: the task check and the processors loop
TaskStagesDone ==
    /\ "seed" \in effects
    /\ main_pc # "processors"

UnknownTaskGiven == task_name \notin Processors \/ FirstUnknown(train_tasks) # 0

\* C11: on an unknown task name, given as task_name or as an entry of
\* train_tasks, main raises ValueError("Task not found") before any processor
\* is instantiated and before the model or the tokenizer is loaded.
C11_UnknownTaskNotFound ==
    (TaskStagesDone /\ UnknownTaskGiven) =>
        /\ main_pc = "raised"
        /\ main_err = TaskError
        /\ "processors" \notin effects
        /\ "model" \notin effects

\* C11's case in the code: task_name is known, an entry of train_tasks is not,
\* and main leaves with KeyError after a processor was instantiated
C11_KeyErrorAfterProcessor ==
    /\ main_pc = "raised"
    /\ main_err = "KeyError"
    /\ task_name \in Processors
    /\ "processors" \in effects

\* lines 719-726 have run: the preprocessing of the arguments
ArgsStageDone ==
    /\ "device" \in effects
    /\ main_pc # "args"

\* C12: main raises on the logging-step flags exactly when the command line
\* sets both; a run that sets only one of them, in particular only
\* logging_steps_in_sample, passes the assertion.
C12_RaisesOnlyWhenBothSet ==
    ArgsStageDone => (main_err = "AssertionError" <=> flags_set = LoggingFlags)

\* C12's case in the code: only logging_steps_in_sample is set and the
\* assertion fails on the default of logging_steps
C12_DefaultTripsAssertion ==
    /\ main_err = "AssertionError"
    /\ flags_set = {"logging_steps_in_sample"}
    /\ logging_steps = LoggingStepsDefault

\* ------------------------------------------------------ evaluate on its own
\* the languages of a task, cut to at most two
TaskLangs == {<<"en">>, <<"de", "en">>}

\* data_dir without cached files, or with those of the valid split of "en"
CachedBefore ==
    {{}, {CachedFeaturesFile(LacArgs("valid", "xnli", "en", -1, FALSE, "",
                                     "models/xlmr/", 128))}}

InitEval ==
    /\ \E mode \in OutputModes, files \in CachedBefore : LacStart(mode, files)
    /\ \E rank \in {-1, 0, 1}, gpus \in 0..MaxGpu, mode \in OutputModes,
          overwrite \in BOOLEAN, single \in BOOLEAN, langs \in TaskLangs,
          batches \in 0..MaxEvalBatches :
          EvalCalled(EvalArgs(rank, gpus, mode, overwrite), single, "xnli",
                     langs, batches)
    /\ DistIdle
    /\ GenIdle
    /\ AvgIdle
    /\ TrainIdle
    /\ MainIdle

NextEval ==
    \/ EvalSetup /\ UNCHANGED otherThanEval
    \/ EvalLoad /\ UNCHANGED otherThanEval
    \/ LacLoad /\ UNCHANGED evalVars /\ UNCHANGED otherThanEval
    \/ LacCreate /\ UNCHANGED evalVars /\ UNCHANGED otherThanEval
    \/ LacReturn /\ UNCHANGED evalVars /\ UNCHANGED otherThanEval
    \/ LacValueError /\ UNCHANGED evalVars /\ UNCHANGED otherThanEval
    \/ EvalLoadRaised /\ UNCHANGED otherThanEval
    \/ EvalLoaded /\ UNCHANGED otherThanEval
    \/ EvalBatch /\ UNCHANGED otherThanEval
    \/ EvalZeroDivision /\ UNCHANGED otherThanEval
    \/ EvalValueError /\ UNCHANGED otherThanEval
    \/ EvalResult /\ UNCHANGED otherThanEval
    \/ EvalReturn /\ UNCHANGED otherThanEval

SpecEval == InitEval /\ [][NextEval]_vars

\* ---------------------------------------------- the processes of a launch
InitDist ==
    /\ \E size \in 1..MaxProcs, cpu \in BOOLEAN, overwrite \in BOOLEAN,
          file \in {"absent", "complete"} :
          DistLaunched(size, cpu, overwrite, file)
    /\ GenIdle
    /\ AvgIdle
    /\ TrainIdle
    /\ MainIdle
    /\ LacIdle("classification")
    /\ EvalIdle

NextDist ==
    \/ \E rank \in Ranks : DistStart(rank) /\ UNCHANGED otherThanDist
    \/ \E rank \in Ranks : DistBarrierPass(rank) /\ UNCHANGED otherThanDist
    \/ \E rank \in Ranks : DistLoadBegin(rank) /\ UNCHANGED otherThanDist
    \/ \E rank \in Ranks : DistLoadEnd(rank) /\ UNCHANGED otherThanDist
    \/ \E rank \in Ranks : DistLacEnter(rank) /\ UNCHANGED otherThanDist
    \/ \E rank \in Ranks : DistLacLoad(rank) /\ UNCHANGED otherThanDist
    \/ \E rank \in Ranks : DistLacCreate(rank) /\ UNCHANGED otherThanDist
    \/ \E rank \in Ranks : DistLacSaveBegin(rank) /\ UNCHANGED otherThanDist
    \/ \E rank \in Ranks : DistLacSaveEnd(rank) /\ UNCHANGED otherThanDist

SpecDist == InitDist /\ [][NextDist]_vars

\* the steps of one process
ProcessStep(rank) ==
    /\ rank \in Ranks
    /\ \/ DistStart(rank)
       \/ DistBarrierPass(rank)
       \/ DistLoadBegin(rank)
       \/ DistLoadEnd(rank)
       \/ DistLacEnter(rank)
       \/ DistLacLoad(rank)
       \/ DistLacCreate(rank)
       \/ DistLacSaveBegin(rank)
       \/ DistLacSaveEnd(rank)
    /\ UNCHANGED otherThanDist

\* every process is an operating-system process of its own and keeps running
SpecDistFair ==
    SpecDist /\ \A rank \in 0..(MaxProcs - 1) : WF_vars(ProcessStep(rank))

\* ---------------------------------------------------------------- C13
\* load_and_cache_examples raised its ValueError
LacModeRaised == lac_pc = "raised" /\ lac_err = "ValueError"

\* evaluate raised the ValueError of its own output-mode test
EvalModeRaised ==
    /\ eval_pc = "raised"
    /\ eval_err = "ValueError"
    /\ lac_pc # "raised"

\* C13: an unsupported output mode fails fast with ValueError: when
\* load_and_cache_examples raises it the call has neither created features
\* nor written a cached-features file, and when evaluate raises it no model
\* forward pass has run.
C13_FailsBeforeEffects ==
    /\ LacModeRaised =>
            /\ features # "created"
            /\ \A k \in DOMAIN lac_log :
                   lac_log[k] # <<"write", FormatArgs(lac_args)>>
    /\ EvalModeRaised => forward_passes = 0

\* C13 case: load_and_cache_examples raises after it created the features and
\* wrote the file
C13_RaisedAfterCacheWrite ==
    /\ LacModeRaised
    /\ features = "created"
    /\ CachedFeaturesFile(lac_args) \in cache_files

\* C13 case: evaluate raises after the forward passes of a whole data loader
C13_RaisedAfterForwardPasses ==
    /\ EvalModeRaised
    /\ forward_passes = eval_batches
    /\ forward_passes > 0

\* ---------------------------------------------------------------- C14
\* C14: in distributed training only the first process creates the features
\* and writes the file, the others use the cache: no process of local rank
\* above 0 creates features, and none reads the file before the first process
\* has written it to its end, in whatever order the processes run.
C14_OnlyFirstProcessCreates ==
    ProcessGroupInitialized =>
        \A rank \in Ranks :
            rank > 0 => /\ procs[rank].features # "created"
                        /\ procs[rank].read # "partial"

\* C14 case: a process of local rank above 0 created the features although
\* overwrite_cache is unset
C14_OtherRankCreated ==
    /\ ProcessGroupInitialized
    /\ ~dist_args.overwrite_cache
    /\ \E rank \in Ranks : rank > 0 /\ procs[rank].features = "created"

\* C14 case: a process of local rank above 0 read the file while the first
\* process was writing it
C14_ReadWhileWriting ==
    /\ ProcessGroupInitialized
    /\ procs[0].pc = "saving"
    /\ \E rank \in Ranks : rank > 0 /\ procs[rank].read = "partial"

\* ---------------------------------------------------------------- C15
\* the process has begun to load config, tokenizer and model
LoadStarted(rank) == procs[rank].model # "none"

\* the process has called the barrier of main and left it
PassedMainBarrier(rank) ==
    /\ procs[rank].barriers >= 1
    /\ ~(procs[rank].pc = "barrier" /\ procs[rank].barriers = 1)

\* no process of local rank above 0 loads before the first has loaded, and
\* no process calls the barrier twice
LoadOrder ==
    \A rank \in Ranks :
        /\ (rank > 0 /\ LoadStarted(rank)) => procs[0].model = "loaded"
        /\ procs[rank].barriers <= 1

CacheKey ==
    <<lac_args.split, DataCacheName(lac_args), lac_args.max_seq_length,
      lac_args.task, lac_args.language>>

\* an earlier call wrote the cached features of the key (data_dir starts
\* without cached files)
KeyWritten(log, key) == \E k \in DOMAIN log : log[k] = <<"write", key>>

\* the step in which the call loads or creates its features
FeaturesStep == lac_pc = "called" /\ lac_pc' = "tensors"

\* C16: the cache is keyed by (split, cache name, max_seq_length, task,
\* language): a call whose key was written before and that has overwrite_cache
\* unset loads its features and neither creates nor writes; any other call
\* creates them and writes the file exactly when local_rank is -1 or 0; after
\* a call on rank -1 or 0 the file of the key exists, so that a following call
\* with the same key and overwrite_cache unset does not create features again.
C16_CacheKeyedAndReused ==
    [][FeaturesStep =>
        /\ KeyWritten(lac_log, CacheKey) <=>
                CachedFeaturesFile(lac_args) \in cache_files
        /\ IF KeyWritten(lac_log, CacheKey) /\ ~lac_args.overwrite_cache
           THEN /\ features' = "loaded"
                /\ lac_log' = Append(lac_log, <<"load", CacheKey>>)
                /\ cache_files' = cache_files
           ELSE /\ features' = "created"
                /\ IF lac_args.local_rank \in {-1, 0}
                   THEN /\ lac_log' = lac_log \o <<<<"create", CacheKey>>,
                                                   <<"write", CacheKey>>>>
                        /\ cache_files' =
                               cache_files \cup {CachedFeaturesFile(lac_args)}
                   ELSE /\ lac_log' = Append(lac_log, <<"create", CacheKey>>)
                        /\ cache_files' = cache_files
        /\ lac_args.local_rank \in {-1, 0} =>
                /\ CachedFeaturesFile(lac_args) \in cache_files'
                /\ KeyWritten(lac_log', CacheKey)]_vars

\* C16 witness: the second call has the key of the first, which wrote the
\* file, and loads the features
C16_SecondCallLoaded ==
    /\ lac_calls = 2
    /\ lac_pc = "returned"
    /\ features = "loaded"
    /\ lac_log = <<<<"create", CacheKey>>, <<"write", CacheKey>>,
                   <<"load", CacheKey>>>>
\* ---------------------------------------------------------------- C17
\* a call of logging() from the loop (line 277)
IsStepCall(call) == call[1] = "step"

StepCalls == SelectSeq(logged, IsStepCall)

\* train has set up its loop
TrainLoopEntered == gen_pc # "idle"

C18_GlobalStepCountsWindows ==
    TrainLoopEntered =>
        /\ global_step = step \div gradient_accumulation_steps
        /\ step = Yielded
        /\ steps_trained_in_current_epoch = 0

\* C18 witness: five batches of two tasks in windows of two made two updates
C18_TwoTasksWitness ==
    /\ train_pc = "loop"
    /\ gradient_accumulation_steps = 2
    /\ step = 5
    /\ global_step = 2
    /\ Len(yield_count) = 2
    /\ yield_count[1] > 0
    /\ yield_count[2] > 0
====
